---- MODULE Spec2Model ----
(***************************************************************************)
(* Model of the inference and learning core of pymdp:                      *)
(*   - pymdp/algos/fpi.py          run_vanilla_fpi, _run_vanilla_fpi_faster *)
(*   - inferactively/core/inference.py   update_posterior_states           *)
(*   - pymdp/jax/learning.py       Dirichlet updates and model pruning     *)
(* Numbers are binary floating-point values with the exponent range of     *)
(* float64 and a shortened mantissa, so that underflow to zero, division   *)
(* by zero, inf and NaN behave as they do in numpy.                        *)
(***************************************************************************)
EXTENDS Integers, Sequences, FiniteSets, TLC

(***************************************************************************)
(* Floating point.  A value is [k, m, e]: k = "fin" stands for m * 2^e     *)
(* with 2^(MantBits-1) <= |m| < 2^MantBits (or m = 0, e = 0), k = "inf"    *)
(* for the infinity of sign m, k = "nan" for NaN.                          *)
(***************************************************************************)
MantBits == 12
ExpMax == 1024
ExpMin == -1074
FracBits == 14

Abs(x) == IF x < 0 THEN -x ELSE x
Sign(x) == IF x < 0 THEN -1 ELSE IF x = 0 THEN 0 ELSE 1
Max2(a, b) == IF a >= b THEN a ELSE b

RECURSIVE BitLen(_)
BitLen(n) == IF n = 0 THEN 0 ELSE 1 + BitLen(n \div 2)

NaN == [k |-> "nan", m |-> 0, e |-> 0]
Inf(s) == [k |-> "inf", m |-> s, e |-> 0]
Zero == [k |-> "fin", m |-> 0, e |-> 0]

IsNaN(a) == a.k = "nan"
IsInf(a) == a.k = "inf"
IsFin(a) == a.k = "fin"
IsZero(a) == a.k = "fin" /\ a.m = 0

\* round-to-nearest-even of mag * 2^e to MantBits bits, with overflow to inf
\* and underflow to zero
Round(m, e) ==
    LET mag == Abs(m)
        s == Sign(m)
        len == BitLen(mag)
        sh == len - MantBits
    IN  IF mag = 0 THEN Zero
        ELSE LET q0 == IF sh > 0 THEN mag \div (2 ^ sh) ELSE mag * (2 ^ (-sh))
                 r == IF sh > 0 THEN mag % (2 ^ sh) ELSE 0
                 half == IF sh > 0 THEN 2 ^ (sh - 1) ELSE 1
                 up == sh > 0 /\ (r > half \/ (r = half /\ q0 % 2 = 1))
                 q1 == IF up THEN q0 + 1 ELSE q0
                 carry == q1 = 2 ^ MantBits
                 q == IF carry THEN 2 ^ (MantBits - 1) ELSE q1
                 ex == IF carry THEN e + sh + 1 ELSE e + sh
             IN  IF ex + MantBits > ExpMax THEN Inf(s)
                 ELSE IF ex + MantBits - 1 < ExpMin THEN Zero
                 ELSE [k |-> "fin", m |-> s * q, e |-> ex]

FromInt(n) == Round(n, 0)

Neg(a) == IF IsNaN(a) THEN NaN ELSE [a EXCEPT !.m = -a.m]

Mul(a, b) ==
    IF IsNaN(a) \/ IsNaN(b) THEN NaN
    ELSE IF IsInf(a) \/ IsInf(b)
         THEN IF IsZero(a) \/ IsZero(b) THEN NaN ELSE Inf(Sign(a.m) * Sign(b.m))
    ELSE Round(a.m * b.m, a.e + b.e)

Div(a, b) ==
    IF IsNaN(a) \/ IsNaN(b) THEN NaN
    ELSE IF IsInf(a) THEN (IF IsInf(b) THEN NaN
                           ELSE Inf(Sign(a.m) * (IF b.m < 0 THEN -1 ELSE 1)))
    ELSE IF IsInf(b) THEN Zero
    ELSE IF b.m = 0 THEN (IF a.m = 0 THEN NaN ELSE Inf(Sign(a.m)))
    ELSE LET num == Abs(a.m) * (2 ^ (MantBits + 2))
             quo == num \div Abs(b.m)
             sticky == IF num % Abs(b.m) = 0 THEN 0 ELSE 1
         IN  Round(Sign(a.m) * Sign(b.m) * (2 * quo + sticky),
                   a.e - b.e - (MantBits + 3))

Add(a, b) ==
    IF IsNaN(a) \/ IsNaN(b) THEN NaN
    ELSE IF IsInf(a) THEN (IF IsInf(b) /\ a.m # b.m THEN NaN ELSE a)
    ELSE IF IsInf(b) THEN b
    ELSE IF a.m = 0 THEN b
    ELSE IF b.m = 0 THEN a
    ELSE LET hi == IF a.e >= b.e THEN a ELSE b
             lo == IF a.e >= b.e THEN b ELSE a
             d == hi.e - lo.e
         IN  IF d > MantBits + 2 THEN hi
             ELSE Round(hi.m * (2 ^ d) + lo.m, lo.e)

Sub(a, b) == Add(a, Neg(b))

\* comparisons are false as soon as one side is NaN, as in IEEE 754
Lt(a, b) ==
    /\ ~IsNaN(a) /\ ~IsNaN(b)
    /\ LET d == Sub(a, b)
       IN  IF IsNaN(d) THEN FALSE      \* inf against the same inf
           ELSE d.m < 0
Ge(a, b) == ~IsNaN(a) /\ ~IsNaN(b) /\ ~Lt(a, b)
FAbs(a) == IF IsNaN(a) THEN NaN ELSE [a EXCEPT !.m = Abs(a.m)]

Frac(n, d) == Div(FromInt(n), FromInt(d))
One == FromInt(1)

\* fixed-point helpers for exp and log: integers in units of 2^-FracBits
Ln2Q20 == 726817                     \* ln 2 in units of 2^-20
FxMul(a, b) == (a * b) \div (2 ^ FracBits)
FxOne == 2 ^ FracBits
\* the float a (|a| < 2^10) as a fixed-point integer, rounded towards -inf
ToFixed(a) ==
    IF a.e + FracBits >= 0 THEN a.m * (2 ^ (a.e + FracBits))
    ELSE IF -(a.e + FracBits) > 30 THEN (IF a.m < 0 THEN -1 ELSE 0)
    ELSE a.m \div (2 ^ (-(a.e + FracBits)))

\* e^r for a fixed-point r in [0, ln 2], by the Taylor polynomial of degree 7
FxExpSmall(r) ==
    LET t7 == FxOne + r \div 7
        t6 == FxOne + FxMul(r, t7) \div 6
        t5 == FxOne + FxMul(r, t6) \div 5
        t4 == FxOne + FxMul(r, t5) \div 4
        t3 == FxOne + FxMul(r, t4) \div 3
        t2 == FxOne + FxMul(r, t3) \div 2
    IN  FxOne + FxMul(r, t2)

\* np.exp
Exp(a) ==
    IF IsNaN(a) THEN NaN
    ELSE IF IsInf(a) THEN (IF a.m > 0 THEN Inf(1) ELSE Zero)
    ELSE IF Lt(FromInt(710), a) THEN Inf(1)
    ELSE IF Lt(a, FromInt(-746)) THEN Zero
    ELSE LET xf == ToFixed(a)
             n == (xf * 64) \div Ln2Q20
             r == xf - ((n * Ln2Q20) \div 64)
         IN  Round(FxExpSmall(r), n - FracBits)

\* ln t for t = m / 2^(MantBits-1) in [1, 2), as 2 atanh((t-1)/(t+1))
FxLogMant(m) ==
    LET z == ((m - 2 ^ (MantBits - 1)) * FxOne) \div (m + 2 ^ (MantBits - 1))
        z2 == FxMul(z, z)
        p9 == FxOne \div 9
        p7 == FxOne \div 7 + FxMul(z2, p9)
        p5 == FxOne \div 5 + FxMul(z2, p7)
        p3 == FxOne \div 3 + FxMul(z2, p5)
        p1 == FxOne + FxMul(z2, p3)
    IN  2 * FxMul(z, p1)

\* np.log
Log(a) ==
    IF IsNaN(a) THEN NaN
    ELSE IF IsInf(a) THEN (IF a.m > 0 THEN Inf(1) ELSE NaN)
    ELSE IF a.m < 0 THEN NaN
    ELSE IF a.m = 0 THEN Inf(-1)
    ELSE Round(((a.e + MantBits - 1) * Ln2Q20) \div 64 + FxLogMant(a.m),
               -FracBits)

\* the literal 1e-16 (3689 * 2^-65)
Eps16 == [k |-> "fin", m |-> 3689, e |-> -65]

(***************************************************************************)
(* Arrays.  A vector (1-D ndarray) is a function on 0..n-1; a tensor is    *)
(* [shape, v] with shape a function on the axes 0..r-1 and v the entries   *)
(* in row-major order, a function on 0..size-1.  An object array is a      *)
(* function on 0..n-1 whose entries are vectors or tensors.                *)
(***************************************************************************)
Dim(v) == Cardinality(DOMAIN v)
Fn0(seq) == [i \in 0..(Len(seq) - 1) |-> seq[i + 1]]
Rank(shape) == Cardinality(DOMAIN shape)

RECURSIVE ProdFrom(_, _)
ProdFrom(shape, a) ==
    IF a >= Rank(shape) THEN 1 ELSE shape[a] * ProdFrom(shape, a + 1)
Size(shape) == ProdFrom(shape, 0)
Stride(shape, a) == ProdFrom(shape, a + 1)
Coord(shape, p, a) == (p \div Stride(shape, a)) % shape[a]

RECURSIVE FSumTo(_, _)
\* v[0] + v[1] + ... + v[n-1], added in index order
FSumTo(v, n) == IF n = 0 THEN Zero ELSE Add(FSumTo(v, n - 1), v[n - 1])
FSum(v) == FSumTo(v, Dim(v))

RECURSIVE FMaxTo(_, _)
\* np.max: NaN as soon as one entry is NaN
FMaxTo(v, n) ==
    IF n = 1 THEN v[0]
    ELSE LET r == FMaxTo(v, n - 1)
         IN  IF IsNaN(r) \/ IsNaN(v[n - 1]) THEN NaN
             ELSE IF Lt(r, v[n - 1]) THEN v[n - 1] ELSE r
FMax(v) == FMaxTo(v, Dim(v))

\* np.ones(n) / n
Uniform(n) == [i \in 0..(n - 1) |-> Div(One, FromInt(n))]
\* np.eye(n)[o]
OneHot(n, o) == [i \in 0..(n - 1) |-> IF i = o THEN One ELSE Zero]

\* maths.softmax: subtract the maximum, exponentiate, divide by the sum
Softmax(x) ==
    LET mx == FMax(x)
        ex == [i \in DOMAIN x |-> Exp(Sub(x[i], mx))]
        total == FSum(ex)
    IN  [i \in DOMAIN x |-> Div(ex[i], total)]

\* the sum of the entries of t whose coordinate on axis f is i, for every i:
\* np.sum(t, dims2sum) with dims2sum every axis but f
RECURSIVE SumWhere(_, _, _, _)
SumWhere(t, f, i, n) ==
    IF n = 0 THEN Zero
    ELSE IF Coord(t.shape, n - 1, f) = i
         THEN Add(SumWhere(t, f, i, n - 1), t.v[n - 1])
         ELSE SumWhere(t, f, i, n - 1)
SumOut(t, f) ==
    [i \in 0..(t.shape[f] - 1) |-> SumWhere(t, f, i, Size(t.shape))]

\* maths.get_joint_likelihood: per modality the row of A[m] the one-hot
\* observation selects, multiplied across the modalities
RECURSIVE ObsDot(_, _, _, _)
ObsDot(Am, om, p, n) ==
    IF n = 0 THEN Zero
    ELSE Add(ObsDot(Am, om, p, n - 1),
             Mul(Am.v[(n - 1) * Stride(Am.shape, 0) + p], om[n - 1]))
RECURSIVE LikelihoodAt(_, _, _, _)
LikelihoodAt(A, obs, p, m) ==
    IF m = 0 THEN One
    ELSE Mul(LikelihoodAt(A, obs, p, m - 1),
             ObsDot(A[m - 1], obs[m - 1], p, Dim(obs[m - 1])))
get_joint_likelihood(A, obs, num_states) ==
    [shape |-> num_states,
     v |-> [p \in 0..(Size(num_states) - 1) |-> LikelihoodAt(A, obs, p, Dim(A))]]

Dot(u, v) == FSum([i \in DOMAIN u |-> Mul(u[i], v[i])])

RECURSIVE OuterAt(_, _, _, _)
\* the entry of the outer product of qs[0..n-1] at row-major position p
OuterAt(qs, shape, p, n) ==
    IF n = 0 THEN One
    ELSE Mul(OuterAt(qs, shape, p, n - 1), qs[n - 1][Coord(shape, p, n - 1)])

\* maths.calc_free_energy can be evaluated: the vectors it pairs have equal
\* lengths (numpy raises ValueError otherwise)
CanFreeEnergy(qs, prior, n_factors, with_likelihood, likelihood) ==
    /\ \A f \in 0..(n_factors - 1) : Dim(qs[f]) = Dim(prior[f])
    /\ with_likelihood =>
         \A f \in 0..(n_factors - 1) : Dim(qs[f]) = likelihood.shape[f]

RECURSIVE Complexity(_, _, _)
Complexity(qs, prior, n) ==
    IF n = 0 THEN Zero
    ELSE LET q == qs[n - 1]
             negH == Dot(q, [i \in DOMAIN q |-> Log(Add(q[i], Eps16))])
             xH == Neg(Dot(q, prior[n - 1]))
         IN  Add(Complexity(qs, prior, n - 1), Add(negH, xH))

\* maths.calc_free_energy: sum over the factors of q.log q - q.prior, minus
\* the expected log-likelihood under the joint belief when it is given
calc_free_energy(qs, prior, n_factors, with_likelihood, likelihood) ==
    LET complexity == Complexity(qs, prior, n_factors)
        joint == [p \in DOMAIN likelihood.v |->
                    Mul(OuterAt(qs, likelihood.shape, p, n_factors),
                        likelihood.v[p])]
    IN  IF with_likelihood THEN Sub(complexity, FSum(joint)) ELSE complexity

(***************************************************************************)
(* numpy broadcasting of a vector against one axis of a tensor             *)
(***************************************************************************)
\* L *= q.reshape(s), s = 1 everywhere but s[axis] = len(q): in place, so
\* the result must fit the shape of L
CanMulInPlace(L, q, axis) == Dim(q) = L.shape[axis] \/ Dim(q) = 1
\* L * q.reshape(s): a new array, either operand is stretched when its
\* extent on the axis is 1
CanBroadcastMul(L, q, axis) ==
    Dim(q) = L.shape[axis] \/ Dim(q) = 1 \/ L.shape[axis] = 1
BroadcastMul(L, q, axis) ==
    LET shape == [L.shape EXCEPT ![axis] = Max2(L.shape[axis], Dim(q))]
        src(p) ==
            LET RECURSIVE At(_)
                At(a) == IF a >= Rank(shape) THEN 0
                         ELSE (IF L.shape[a] = 1 THEN 0 ELSE Coord(shape, p, a))
                                * Stride(L.shape, a) + At(a + 1)
            IN  At(0)
    IN  [shape |-> shape,
         v |-> [p \in 0..(Size(shape) - 1) |->
                  Mul(L.v[src(p)],
                      q[IF Dim(q) = 1 THEN 0 ELSE Coord(shape, p, axis)])]]
\* u + v for two vectors
CanBroadcastAdd(u, v) == Dim(u) = Dim(v) \/ Dim(u) = 1 \/ Dim(v) = 1
BroadcastAdd(u, v) ==
    [i \in 0..(Max2(Dim(u), Dim(v)) - 1) |->
       Add(u[IF Dim(u) = 1 THEN 0 ELSE i], v[IF Dim(v) = 1 THEN 0 ELSE i])]
Reciprocal(q) == [i \in DOMAIN q |-> Div(One, q[i])]

(***************************************************************************)
(* State                                                                   *)
(***************************************************************************)
VARIABLES
    pc,          \* position of the running solver call
    args,        \* its arguments
    likelihood,  \* the joint log-likelihood tensor
    qs,          \* the marginal posterior beliefs, one vector per factor
    prior,       \* the per-factor prior as the loop uses it
    prev_vfe, dF, curr_iter,
    order_i,     \* index into factor_orders (0 forward, 1 reverse)
    factor,      \* the loop variable `factor` of the multiply-in loop
    pos,         \* position of `f` in the current factor_order
    L,           \* the joint tensor of the current factor_order
    ret          \* how the call ended: [kind, exc, val]

fpi_vars == <<pc, args, likelihood, qs, prior, prev_vfe, dF, curr_iter,
              order_i, factor, pos, L, ret>>

\* learning and model reduction
VARIABLES
    objs, arrs,  \* the heap: object arrays and ndarrays by id
    env,         \* what the caller holds: ids of pA, A, pB, B, pD, obs, qs, ...
    phase,       \* "ready", "prepared" (arguments built) or "returned"
    ncalls       \* calls made so far

learn_vars == <<objs, arrs, env, phase, ncalls>>

\* update_posterior_states
VARIABLES
    ipc,            \* position of the running call
    iargs,          \* its arguments
    idims,          \* n_factors, n_states, n_modalities, n_observations
    iobs, iprior,   \* obs and prior as the function rebinds them
    run_fpi_calls,  \* how often run_fpi was invoked
    iret            \* how the call ended

infer_vars == <<ipc, iargs, idims, iobs, iprior, run_fpi_calls, iret>>

vars == <<fpi_vars, learn_vars, infer_vars>>

\* a component that is not running
FpiIdle ==
    /\ pc = "off" /\ args = <<>> /\ likelihood = <<>> /\ qs = <<>>
    /\ prior = <<>> /\ prev_vfe = <<>> /\ dF = <<>> /\ curr_iter = 0
    /\ order_i = 0 /\ factor = 0 /\ pos = 0 /\ L = <<>> /\ ret = <<>>
LearnIdle ==
    /\ objs = <<>> /\ arrs = <<>> /\ env = <<>> /\ phase = "off" /\ ncalls = 0
InferIdle ==
    /\ ipc = "off" /\ iargs = <<>> /\ idims = <<>> /\ iobs = <<>>
    /\ iprior = <<>> /\ run_fpi_calls = 0 /\ iret = <<>>

NoTensor == [shape |-> <<>>, v |-> <<>>]
NoArgs == [alg |-> "", A |-> <<>>, obs |-> <<>>, num_states |-> <<>>,
           prior_given |-> FALSE, prior |-> <<>>, num_iter |-> 0,
           dF |-> Zero, dF_tol |-> Zero]
NoRet == [kind |-> "none", exc |-> "", val |-> <<>>]
Returned(val) == [kind |-> "return", exc |-> "", val |-> val]
Raised(exc) == [kind |-> "raise", exc |-> exc, val |-> <<>>]

(***************************************************************************)
(* The inputs the solver is called with                                    *)
(***************************************************************************)
MaxIter == 2
NumObsLevels == 2

\* an observation model over the joint state space: outcome 0 is the one
\* expected in the joint state in which every factor is at level 0, outcome 1
\* the one expected in every other state; every column sums to 1
ModelA(pattern, num_states) ==
    LET shape == [a \in 0..Rank(num_states) |->
                    IF a = 0 THEN NumObsLevels ELSE num_states[a - 1]]
        expected(p) == IF p % Stride(shape, 0) = 0 THEN 0 ELSE 1
        o(p) == Coord(shape, p, 0)
    IN  [shape |-> shape,
         v |-> [p \in 0..(Size(shape) - 1) |->
                  CASE pattern = "detect" ->
                         IF o(p) = expected(p) THEN One ELSE Zero
                    [] pattern = "noisy" ->
                         IF o(p) = expected(p) THEN Frac(3, 4)
                         ELSE IF o(p) = 1 - expected(p) THEN Frac(1, 4) ELSE Zero
                    [] OTHER -> Div(One, FromInt(NumObsLevels))]]

NumStatesSet == {Fn0(<<2>>), Fn0(<<3>>), Fn0(<<2, 2>>), Fn0(<<2, 3>>),
                 Fn0(<<1, 2>>), Fn0(<<2, 2, 2>>)}
PatternsSet == {Fn0(<<"detect">>), Fn0(<<"noisy">>), Fn0(<<"flat">>),
                Fn0(<<"noisy", "detect">>)}
\* a prior that prefers level 0
Skewed(n) == [i \in 0..(n - 1) |->
                IF n = 1 THEN One
                ELSE IF i = 0 THEN Frac(1, 2) ELSE Frac(1, 2 * (n - 1))]
PriorKinds == {"none", "uniform", "skewed"}
PriorArg(kind, num_states) ==
    [f \in DOMAIN num_states |->
       IF kind = "skewed" THEN Skewed(num_states[f]) ELSE Uniform(num_states[f])]
\* the default tolerance 0.001 and a coarse one; the default seed 1.0, a seed
\* equal to the default tolerance and one below it
DFTols == {Frac(1, 1000), One}
DFSeeds == {One, Frac(1, 1000), Frac(1, 2048)}

(***************************************************************************)
(* run_vanilla_fpi and _run_vanilla_fpi_faster                             *)
(***************************************************************************)
FpiInit ==
    /\ LearnIdle /\ InferIdle
    /\ pc = "idle" /\ args = NoArgs /\ likelihood = NoTensor /\ qs = <<>>
    /\ prior = <<>> /\ prev_vfe = Zero /\ dF = Zero /\ curr_iter = 0
    /\ order_i = 0 /\ factor = 0 /\ pos = 0 /\ L = NoTensor /\ ret = NoRet

\* a caller invokes one of the two solvers
Call ==
    /\ pc = "idle"
    /\ \E alg \in {"run_vanilla_fpi", "_run_vanilla_fpi_faster"},
          ns \in NumStatesSet, pats \in PatternsSet, pk \in PriorKinds,
          ni \in 0..MaxIter, seed \in DFSeeds, tol \in DFTols :
        \E o \in [DOMAIN pats -> 0..(NumObsLevels - 1)] :
            args' = [alg |-> alg,
                     A |-> [m \in DOMAIN pats |-> ModelA(pats[m], ns)],
                     obs |-> [m \in DOMAIN pats |-> OneHot(NumObsLevels, o[m])],
                     num_states |-> ns,
                     prior_given |-> pk # "none",
                     prior |-> IF pk = "none" THEN <<>> ELSE PriorArg(pk, ns),
                     num_iter |-> ni, dF |-> seed, dF_tol |-> tol]
    /\ pc' = "entry"
    /\ UNCHANGED <<likelihood, qs, prior, prev_vfe, dF, curr_iter, order_i,
                   factor, pos, L, ret>>
    /\ UNCHANGED <<learn_vars, infer_vars>>

n_factors == Dim(args.num_states)

\* run_vanilla_fpi, line 52: num_observations is no name of the function or
\* of the module (the parameter is num_obs), so the first statement raises
RunVanillaFpi ==
    /\ pc = "entry" /\ args.alg = "run_vanilla_fpi"
    /\ pc' = "done" /\ ret' = Raised("NameError")
    /\ UNCHANGED <<args, likelihood, qs, prior, prev_vfe, dF, curr_iter,
                   order_i, factor, pos, L>>
    /\ UNCHANGED <<learn_vars, infer_vars>>

\* _run_vanilla_fpi_faster, lines 207-251 and 269: joint log-likelihood,
\* flat posterior, prior, initial free energy
Setup ==
    /\ pc = "entry" /\ args.alg = "_run_vanilla_fpi_faster"
    /\ LET ns == args.num_states
           joint == get_joint_likelihood(args.A, args.obs, ns)
           loglik == [shape |-> ns,
                      v |-> [p \in DOMAIN joint.v |-> Log(Add(joint.v[p], Eps16))]]
           flat == [f \in DOMAIN ns |-> Uniform(ns[f])]
           pr == IF args.prior_given THEN args.prior
                 ELSE [f \in DOMAIN ns |->
                         [i \in 0..(ns[f] - 1) |-> Log(Add(Uniform(ns[f])[i], Eps16))]]
       IN  /\ likelihood' = loglik
           /\ qs' = flat
           /\ prior' = pr
           /\ prev_vfe' = calc_free_energy(flat, pr, n_factors, FALSE, loglik)
    /\ dF' = args.dF
    /\ curr_iter' = 0
    /\ pc' = IF n_factors = 1 THEN "single" ELSE "while"
    /\ UNCHANGED <<args, order_i, factor, pos, L, ret>>
    /\ UNCHANGED <<learn_vars, infer_vars>>

\* lines 259-261: with one factor spm_dot(likelihood, qs, [0]) contracts
\* nothing and the posterior is softmax(likelihood + prior[0])
SingleFactor ==
    /\ pc = "single"
    /\ ret' = Returned([f \in {0} |-> Softmax(BroadcastAdd(likelihood.v, prior[0]))])
    /\ pc' = "done"
    /\ UNCHANGED <<args, likelihood, qs, prior, prev_vfe, dF, curr_iter,
                   order_i, factor, pos, L>>
    /\ UNCHANGED <<learn_vars, infer_vars>>

\* a loop that only counts its passes
LoopIgnoresTolerance == curr_iter < args.num_iter
\* line 271
LoopCondition == curr_iter < args.num_iter /\ Ge(dF, args.dF_tol)

LoopEnter ==
    /\ pc = "while" /\ LoopCondition
    /\ pc' = "order" /\ order_i' = 0
    /\ UNCHANGED <<args, likelihood, qs, prior, prev_vfe, dF, curr_iter,
                   factor, pos, L, ret>>
    /\ UNCHANGED <<learn_vars, infer_vars>>

\* line 315
LoopExit ==
    /\ pc = "while" /\ ~LoopCondition
    /\ pc' = "done" /\ ret' = Returned(qs)
    /\ UNCHANGED <<args, likelihood, qs, prior, prev_vfe, dF, curr_iter,
                   order_i, factor, pos, L>>
    /\ UNCHANGED <<learn_vars, infer_vars>>

\* line 278: factor_orders = [range(n), range(n - 1, -1, -1)]
FactorOrder(i) ==
    [k \in 0..(n_factors - 1) |-> IF i = 0 THEN k ELSE n_factors - 1 - k]

RECURSIVE MultiplyIn(_, _, _)
\* lines 285-288 for the first k factors of the order
MultiplyIn(T, order, k) ==
    IF k = 0 THEN T
    ELSE BroadcastMul(MultiplyIn(T, order, k - 1), qs[order[k - 1]], order[k - 1])

\* lines 280-288: copy the log-likelihood and multiply every marginal in
BeginOrder ==
    /\ pc = "order"
    /\ LET order == FactorOrder(order_i)
       IN  IF \A k \in DOMAIN order : CanMulInPlace(likelihood, qs[order[k]], order[k])
           THEN /\ L' = MultiplyIn(likelihood, order, n_factors)
                /\ factor' = order[n_factors - 1]
                /\ pos' = 0
                /\ pc' = "divide"
                /\ ret' = ret
           ELSE /\ pc' = "done" /\ ret' = Raised("ValueError")
                /\ UNCHANGED <<L, factor, pos>>
    /\ UNCHANGED <<args, likelihood, qs, prior, prev_vfe, dF, curr_iter, order_i>>
    /\ UNCHANGED <<learn_vars, infer_vars>>

\* lines 294-304 for f = factor_order[pos].  The body indexes with `factor`,
\* the variable the multiply-in loop left at its last value, not with f
DivideStep ==
    /\ pc = "divide"
    /\ LET f == FactorOrder(order_i)[pos]
           last == pos = n_factors - 1
       IN  IF ~CanBroadcastMul(L, qs[factor], factor)
           THEN /\ pc' = "done" /\ ret' = Raised("ValueError")
                /\ UNCHANGED <<qs, pos, order_i>>
           ELSE LET temp == BroadcastMul(L, Reciprocal(qs[factor]), factor)
                    qL == SumOut(temp, f)
                IN  IF ~CanBroadcastAdd(qL, prior[factor])
                    THEN /\ pc' = "done" /\ ret' = Raised("ValueError")
                         /\ UNCHANGED <<qs, pos, order_i>>
                    ELSE /\ qs' = [qs EXCEPT ![factor] =
                                     Softmax(BroadcastAdd(qL, prior[factor]))]
                         /\ pos' = IF last THEN 0 ELSE pos + 1
                         /\ order_i' = IF last /\ order_i = 0 THEN 1 ELSE order_i
                         /\ pc' = IF ~last THEN "divide"
                                  ELSE IF order_i = 0 THEN "order" ELSE "vfe"
                         /\ ret' = ret
    /\ UNCHANGED <<args, likelihood, prior, prev_vfe, dF, curr_iter, factor, L>>
    /\ UNCHANGED <<learn_vars, infer_vars>>

\* lines 307-313: new free energy, its change, the iteration counter
FreeEnergy ==
    /\ pc = "vfe"
    /\ IF ~CanFreeEnergy(qs, prior, n_factors, TRUE, likelihood)
       THEN /\ pc' = "done" /\ ret' = Raised("ValueError")
            /\ UNCHANGED <<dF, prev_vfe, curr_iter>>
       ELSE LET vfe == calc_free_energy(qs, prior, n_factors, TRUE, likelihood)
            IN  /\ dF' = FAbs(Sub(prev_vfe, vfe))
                /\ prev_vfe' = vfe
                /\ curr_iter' = curr_iter + 1
                /\ pc' = "while"
                /\ ret' = ret
    /\ UNCHANGED <<args, likelihood, qs, prior, order_i, factor, pos, L>>
    /\ UNCHANGED <<learn_vars, infer_vars>>

(***************************************************************************)
(* Learning and pruning work on the caller's arrays.  The heap holds the   *)
(* ndarrays (arrs: id -> tensor) and the object arrays (objs: id -> the    *)
(* ids of the entries), so that a copy and an alias are different things.  *)
(***************************************************************************)
heap == [objs |-> objs, arrs |-> arrs]
\* F applied to the value of x, which is computed once: how one statement
\* hands its result to the next
Then(x, F(_)) == CHOOSE r \in {F(y) : y \in {x}} : TRUE

Used(h) == DOMAIN h.objs \cup DOMAIN h.arrs
\* the n smallest ids not in use, ascending
FreshIds(h, n) ==
    LET free == (1..(Cardinality(Used(h)) + n)) \ Used(h)
    IN  [k \in 0..(n - 1) |->
           CHOOSE x \in free : Cardinality({y \in free : y < x}) = k]
Vec(v) == [shape |-> Fn0(<<Dim(v)>>), v |-> v]

\* a new ndarray holding val
NewArr(h, val) ==
    Then(FreshIds(h, 1), LAMBDA ids :
        [h |-> [h EXCEPT !.arrs = (ids[0] :> val) @@ @], id |-> ids[0]])

\* a new object array whose entries are new ndarrays holding vals[0..n-1]
NewObj(h, vals) ==
    Then(FreshIds(h, Dim(vals) + 1), LAMBDA ids :
        [h |-> [objs |-> (ids[0] :> [i \in DOMAIN vals |-> ids[i + 1]]) @@ h.objs,
                arrs |-> [id \in {ids[i + 1] : i \in DOMAIN vals} |->
                            vals[CHOOSE i \in DOMAIN vals : ids[i + 1] = id]]
                         @@ h.arrs],
         id |-> ids[0]])

\* the values of the entries of an object array
Deref(h, o) == [i \in DOMAIN h.objs[o] |-> h.arrs[h.objs[o][i]]]
Referenced(h, id) == \E o \in DOMAIN h.objs : \E i \in DOMAIN h.objs[o] : h.objs[o][i] = id
Restrict(f, S) == [x \in S |-> f[x]]
\* reference counting: an ndarray no object array holds any more is freed
Release(h, id) ==
    IF Referenced(h, id) THEN h
    ELSE [h EXCEPT !.arrs = Restrict(@, DOMAIN @ \ {id})]
\* the caller drops an object array (or an ndarray it holds directly)
FreeObj(h, o) ==
    IF o \notin DOMAIN h.objs
    THEN [h EXCEPT !.arrs = Restrict(@, DOMAIN @ \ {o})]
    ELSE Then([h EXCEPT !.objs = Restrict(@, DOMAIN @ \ {o})], LAMBDA h1 :
            [h1 EXCEPT !.arrs =
               Restrict(@, {id \in DOMAIN @ :
                              id \in {h.objs[o][i] : i \in DOMAIN h.objs[o]}
                                => Referenced(h1, id)})])

CopyAlias(h, src) == [h |-> h, id |-> src]
\* copy.deepcopy of an object array: a new object array of new ndarrays
deepcopy(h, src) == NewObj(h, Deref(h, src))

\* maths.spm_cross: the outer product of the vectors vecs[0..n-1]
spm_cross(vecs) ==
    LET shape == [a \in DOMAIN vecs |-> Dim(vecs[a])]
    IN  [shape |-> shape,
         v |-> [p \in 0..(Size(shape) - 1) |-> OuterAt(vecs, shape, p, Dim(vecs))]]
\* a mask that lets every entry through
MaskNothing(x) == One
\* (x > 0).astype("float")
Positive(x) == IF Lt(Zero, x) THEN One ELSE Zero
\* an increment that forgets the learning rate
Unscaled(lr, d) == d
\* lr * dfda
Scaled(lr, d) == Mul(lr, d)
\* every entry, whatever the action
InAnySlice(shape, p, a) == TRUE
\* the entries [:, :, a] of a (states x states x actions) array
InActionSlice(shape, p, a) == Coord(shape, p, 2) = a
\* every index, in the support or not
AnyIndex(x) == TRUE
\* pD[factor] > 0
InSupport(x) == Lt(Zero, x)

(***************************************************************************)
(* learning.py: Dirichlet updates.  Each takes the heap and the ids of its *)
(* arguments and gives the heap after the call with the id it returns.     *)
(***************************************************************************)
RECURSIVE ObsLoop(_, _, _, _, _, _, _, _)
\* lines 50-56 for the first k entries of modalities
ObsLoop(h, qA, A, obs, qs_, lr, modalities, k) ==
    IF k = 0 THEN h
    ELSE Then(ObsLoop(h, qA, A, obs, qs_, lr, modalities, k - 1), LAMBDA h1 :
         LET modality == modalities[k - 1]
             cross == spm_cross([a \in 0..Dim(h1.objs[qs_]) |->
                                   IF a = 0 THEN h1.arrs[h1.objs[obs][modality]].v
                                   ELSE h1.arrs[h1.objs[qs_][a - 1]].v])
             Am == h1.arrs[h1.objs[A][modality]]
             dfda == [p \in DOMAIN cross.v |-> Mul(cross.v[p], Positive(Am.v[p]))]
             old == h1.objs[qA][modality]
             sum == [h1.arrs[old] EXCEPT
                       !.v = [p \in DOMAIN @ |-> Add(@[p], Scaled(lr, dfda[p]))]]
         IN  Then(NewArr(h1, sum), LAMBDA na :
                 Then([na.h EXCEPT !.objs[qA][modality] = na.id], LAMBDA h2 :
                     Release(h2, old))))

update_obs_likelihood_dirichlet(h, pA, A, obs, qs_, lr, modalities) ==
    Then(deepcopy(h, pA), LAMBDA c :
        [h |-> ObsLoop(c.h, c.id, A, obs, qs_, lr, modalities, Dim(modalities)),
         id |-> c.id])

RECURSIVE StateLoop(_, _, _, _, _, _, _, _, _)
\* lines 100-104 for the first k entries of factors
StateLoop(h, qB, B, actions, qs_, qs_prev, lr, factors, k) ==
    IF k = 0 THEN h
    ELSE Then(StateLoop(h, qB, B, actions, qs_, qs_prev, lr, factors, k - 1),
              LAMBDA h1 :
         LET f == factors[k - 1]
             q == h1.arrs[h1.objs[qs_][f]].v
             qp == h1.arrs[h1.objs[qs_prev][f]].v
             cross == spm_cross([a \in 0..1 |-> IF a = 0 THEN q ELSE qp])
             Bf == h1.arrs[h1.objs[B][f]]
             at(i, j) == (i * Bf.shape[1] + j) * Bf.shape[2] + actions[f]
             dfdb(i, j) == Mul(cross.v[i * Dim(qp) + j], Positive(Bf.v[at(i, j)]))
             tgt == h1.objs[qB][f]
         IN  [h1 EXCEPT !.arrs[tgt].v =
                [p \in DOMAIN @ |->
                   IF InActionSlice(Bf.shape, p, actions[f])
                   THEN Add(@[p], Scaled(lr, dfdb(Coord(Bf.shape, p, 0),
                                                 Coord(Bf.shape, p, 1))))
                   ELSE @[p]]])

update_state_likelihood_dirichlet(h, pB, B, actions, qs_, qs_prev, lr, factors) ==
    Then(deepcopy(h, pB), LAMBDA c :
        [h |-> StateLoop(c.h, c.id, B, actions, qs_, qs_prev, lr, factors,
                         Dim(factors)),
         id |-> c.id])

RECURSIVE PriorLoop(_, _, _, _, _, _, _)
\* lines 141-143 for the first k entries of factors
PriorLoop(h, qD, pD, qs_, lr, factors, k) ==
    IF k = 0 THEN h
    ELSE Then(PriorLoop(h, qD, pD, qs_, lr, factors, k - 1), LAMBDA h1 :
         LET factor_ == factors[k - 1]
             idx == [i \in DOMAIN h1.arrs[h1.objs[pD][factor_]].v |->
                       InSupport(h1.arrs[h1.objs[pD][factor_]].v[i])]
             q == h1.arrs[h1.objs[qs_][factor_]].v
             tgt == h1.objs[qD][factor_]
         IN  [h1 EXCEPT !.arrs[tgt].v =
                [i \in DOMAIN @ |->
                   IF idx[i] THEN Add(@[i], Scaled(lr, q[i])) ELSE @[i]]])

\* an update that keeps only the latest beliefs instead of accumulating them
ForgetfulPriorUpdate(h, pD, qs_, lr, factors) == deepcopy(h, qs_)

\* lines 108-145: the counts of the selected factors grow by lr * qs on the
\* support of pD
update_state_prior_dirichlet(h, pD, qs_, lr, factors) ==
    Then(deepcopy(h, pD), LAMBDA c :
        [h |-> PriorLoop(c.h, c.id, pD, qs_, lr, factors, Dim(factors)),
         id |-> c.id])

(***************************************************************************)
(* learning.py: model reduction                                            *)
(***************************************************************************)
\* a selection that also loses the last level
DropsLastLevel(n, remove) ==
    [k \in 0..(Cardinality((0..(n - 2)) \ remove) - 1) |->
       CHOOSE x \in (0..(n - 2)) \ remove :
          Cardinality({y \in (0..(n - 2)) \ remove : y < x}) = k]
\* list(set(range(n)) - set(remove)): the surviving levels, ascending
LevelsToKeep(n, remove) ==
    LET S == (0..(n - 1)) \ remove
    IN  [k \in 0..(Cardinality(S) - 1) |->
           CHOOSE x \in S : Cardinality({y \in S : y < x}) = k]

\* t[np.ix_(keeps[0], keeps[1], ...)]: a new array
Take(t, keeps) ==
    LET shape == [a \in DOMAIN t.shape |-> Dim(keeps[a])]
        src(p) ==
            LET RECURSIVE At(_)
                At(a) == IF a >= Rank(shape) THEN 0
                         ELSE keeps[a][Coord(shape, p, a)] * Stride(t.shape, a)
                              + At(a + 1)
            IN  At(0)
    IN  [shape |-> shape, v |-> [p \in 0..(Size(shape) - 1) |-> t.v[src(p)]]]

\* utils.norm_dist: every column (axis 0) divided by its sum
norm_dist(t) ==
    Then(t, LAMBDA dist :
        LET inner == Stride(dist.shape, 0)
            colsum(p) == FSum([i \in 0..(dist.shape[0] - 1) |->
                                 dist.v[i * inner + (p % inner)]])
        IN  [dist EXCEPT !.v = [p \in DOMAIN @ |-> Div(@[p], colsum(p))]])

NoResult == 0
Outcome(h, id, exc, warned, sliced) ==
    [h |-> h, id |-> id, exc |-> exc, warned |-> warned, sliced |-> sliced]

\* _prune_prior, lines 168-196: a prior with several factors.  The loop
\* stops at the first factor that keeps a level when dirichlet is set
PrunePriorFactored(h, prior_, levels_to_remove, dirichlet) ==
    LET num_factors == Dim(h.objs[prior_])
        s(f) == h.arrs[h.objs[prior_][f]]
        keep(f) == LevelsToKeep(Dim(s(f).v), levels_to_remove[f])
        emptied == {f \in 0..(num_factors - 1) : Dim(keep(f)) = 0}
        raising == {f \in 0..(num_factors - 1) : Dim(keep(f)) > 0 /\ dirichlet}
        first == CHOOSE f \in raising : \A g \in raising : f <= g
        factors_to_keep == LevelsToKeep(num_factors, emptied)
        reduced == [k \in DOMAIN factors_to_keep |->
                      norm_dist(Take(s(factors_to_keep[k]),
                                     [a \in {0} |-> keep(factors_to_keep[k])]))]
        n == NewObj(h, reduced)
    IN  IF raising # {}
        THEN Outcome(h, NoResult, "NotImplementedError",
                     {f \in emptied : f < first}, 0)
        ELSE Outcome(n.h, n.id, "", emptied, Dim(factors_to_keep))

\* _prune_prior, lines 198-207: a single vector
PrunePriorSingle(h, prior_, levels_to_remove, dirichlet) ==
    LET keep == LevelsToKeep(Dim(h.arrs[prior_].v), levels_to_remove)
        n == NewArr(h, norm_dist(Take(h.arrs[prior_], [a \in {0} |-> keep])))
    IN  IF dirichlet THEN Outcome(h, NoResult, "NotImplementedError", {}, 0)
        ELSE Outcome(n.h, n.id, "", {}, 1)

\* utils.is_obj_array(prior) decides between the two
_prune_prior(h, prior_, levels_to_remove, dirichlet) ==
    IF prior_ \in DOMAIN h.objs
    THEN PrunePriorFactored(h, prior_, levels_to_remove, dirichlet)
    ELSE PrunePriorSingle(h, prior_, levels_to_remove, dirichlet)

\* _prune_A, lines 241-244 and 264-278, for one ndarray A: np.ix_ gets the
\* rows and the columns of the first state axis, further axes are kept whole
PruneASingle(h, A, obs_levels_to_prune, state_levels_to_prune, dirichlet) ==
    LET A_ == h.arrs[A]
        columns_to_keep == LevelsToKeep(A_.shape[1], state_levels_to_prune)
        rows_to_keep == LevelsToKeep(A_.shape[0], obs_levels_to_prune)
        reduced_A == Take(A_, [a \in DOMAIN A_.shape |->
                                 IF a = 0 THEN rows_to_keep
                                 ELSE IF a = 1 THEN columns_to_keep
                                 ELSE LevelsToKeep(A_.shape[a], {})])
        n == NewArr(h, norm_dist(reduced_A))
    IN  IF dirichlet
        THEN Outcome(h, NoResult, "NotImplementedError", {}, 1)
        ELSE Outcome(n.h, n.id, "", {}, 1)

\* _prune_A, lines 236-265, for an object array A: every modality is sliced,
\* only then dirichlet is looked at
PruneAModalities(h, A, obs_levels_to_prune, state_levels_to_prune, dirichlet) ==
    LET num_states == [f \in 0..(Rank(h.arrs[h.objs[A][0]].shape) - 2) |->
                         h.arrs[h.objs[A][0]].shape[f + 1]]
        columns_to_keep_list == [f \in DOMAIN num_states |->
                                   LevelsToKeep(num_states[f], state_levels_to_prune[f])]
        reduced_A == [m \in DOMAIN h.objs[A] |->
            LET A_i == h.arrs[h.objs[A][m]]
                rows_to_keep == LevelsToKeep(A_i.shape[0], obs_levels_to_prune[m])
            IN  Take(A_i, [a \in DOMAIN A_i.shape |->
                             IF a = 0 THEN rows_to_keep
                             ELSE columns_to_keep_list[a - 1]])]
        n == NewObj(h, [m \in DOMAIN reduced_A |-> norm_dist(reduced_A[m])])
    IN  IF dirichlet
        THEN Outcome(h, NoResult, "NotImplementedError", {}, Dim(reduced_A))
        ELSE Outcome(n.h, n.id, "", {}, Dim(reduced_A))

\* utils.is_obj_array(A) decides between the two
_prune_A(h, A, obs_levels_to_prune, state_levels_to_prune, dirichlet) ==
    IF A \in DOMAIN h.objs
    THEN PruneAModalities(h, A, obs_levels_to_prune, state_levels_to_prune, dirichlet)
    ELSE PruneASingle(h, A, obs_levels_to_prune, state_levels_to_prune, dirichlet)

\* _prune_B, lines 311-343, for an object array B
_prune_B(h, B, state_levels_to_prune, action_levels_to_prune, dirichlet) ==
    LET slices_to_keep_list == [c \in DOMAIN h.objs[B] |->
            LevelsToKeep(h.arrs[h.objs[B][c]].shape[2], action_levels_to_prune[c])]
        reduced_B == [f \in DOMAIN h.objs[B] |->
            LET B_f == h.arrs[h.objs[B][f]]
                states_to_keep == LevelsToKeep(B_f.shape[0], state_levels_to_prune[f])
            IN  Take(B_f, [a \in 0..2 |-> IF a = 2 THEN slices_to_keep_list[f]
                                          ELSE states_to_keep])]
        n == NewObj(h, [f \in DOMAIN reduced_B |-> norm_dist(reduced_B[f])])
    IN  IF dirichlet
        THEN Outcome(h, NoResult, "NotImplementedError", {}, Dim(reduced_B))
        ELSE Outcome(n.h, n.id, "", {}, Dim(reduced_B))

(***************************************************************************)
(* The agent that learns: what it holds and what it calls                  *)
(***************************************************************************)
MaxCalls == 2

LearnStates == Fn0(<<2, 2>>)
NumControls == 2
\* a transition model per factor: action 0 keeps the state, action 1 mixes
ModelB(ns) ==
    LET shape == Fn0(<<ns, ns, NumControls>>)
    IN  [shape |-> shape,
         v |-> [p \in 0..(Size(shape) - 1) |->
                  IF Coord(shape, p, 2) = 0
                  THEN (IF Coord(shape, p, 0) = Coord(shape, p, 1) THEN One ELSE Zero)
                  ELSE Div(One, FromInt(ns))]]
Ones(t) == [t EXCEPT !.v = [p \in DOMAIN @ |-> One]]

InitA == [m \in 0..1 |-> ModelA(IF m = 0 THEN "detect" ELSE "noisy", LearnStates)]
InitB == [f \in DOMAIN LearnStates |-> ModelB(LearnStates[f])]
\* "sparse": the Dirichlet parameters start with the support of the model
\* (utils.dirichlet_like); "dense": they start as all ones
InitKinds == {"sparse", "dense"}
InitPA(kind) == [m \in DOMAIN InitA |-> IF kind = "sparse" THEN InitA[m] ELSE Ones(InitA[m])]
InitPB(kind) == [f \in DOMAIN InitB |-> IF kind = "sparse" THEN InitB[f] ELSE Ones(InitB[f])]
InitPD(kind) ==
    [f \in DOMAIN LearnStates |->
       Vec(IF kind = "sparse" /\ f = 0 THEN OneHot(LearnStates[f], 0)
           ELSE [i \in 0..(LearnStates[f] - 1) |-> One])]
InitD == Vec(Fn0(<<Frac(1, 2), Frac(1, 4), Frac(1, 4)>>))
LrSet == {Zero, Frac(1, 2), One}

\* what one time step gives the agent: outcomes, beliefs now and before, actions;
\* the beliefs about factor 0 are not binary fractions, as posteriors rarely are
Experiences ==
    {[obs |-> Fn0(<<0, 1>>), actions |-> Fn0(<<0, 1>>),
      qs |-> Fn0(<<Fn0(<<Frac(3, 10), Frac(7, 10)>>), Fn0(<<Frac(1, 2), Frac(1, 2)>>)>>),
      qs_prev |-> Fn0(<<Fn0(<<Frac(1, 2), Frac(1, 2)>>), Fn0(<<One, Zero>>)>>)],
     [obs |-> Fn0(<<1, 1>>), actions |-> Fn0(<<1, 0>>),
      qs |-> Fn0(<<Fn0(<<Frac(3, 5), Frac(2, 5)>>), Fn0(<<Zero, One>>)>>),
      qs_prev |-> Fn0(<<Fn0(<<Zero, One>>), Fn0(<<Frac(1, 4), Frac(3, 4)>>)>>)]}
\* modalities / factors: "all" is list(range(n))
Selections == {Fn0(<<0, 1>>), Fn0(<<0>>), Fn0(<<1>>)}

LearnInit ==
    /\ FpiIdle /\ InferIdle
    /\ \E kind \in InitKinds, lr \in LrSet :
        \E a \in {NewObj([objs |-> <<>>, arrs |-> <<>>], InitA)} :
        \E pa \in {NewObj(a.h, InitPA(kind))} :
        \E b \in {NewObj(pa.h, InitB)} :
        \E pb \in {NewObj(b.h, InitPB(kind))} :
        \E pd \in {NewObj(pb.h, InitPD(kind))} :
        \E d \in {NewArr(pd.h, InitD)} :
            /\ objs = d.h.objs /\ arrs = d.h.arrs
            /\ env = [kind |-> kind, lr |-> lr, A |-> a.id, pA |-> pa.id,
                      B |-> b.id, pB |-> pb.id, pD |-> pd.id, D |-> d.id,
                      obs |-> NoResult, qs |-> NoResult, qs_prev |-> NoResult,
                      actions |-> <<>>, sel |-> <<>>, op |-> "",
                      res |-> NoResult, exc |-> "", warned |-> {}, sliced |-> 0,
                      levels |-> <<>>, dirichlet |-> FALSE]
            /\ phase = "ready" /\ ncalls = 0

\* the caller builds the arguments of a learning call
Prepare ==
    /\ phase = "ready" /\ ncalls < MaxCalls
    /\ \E e \in Experiences, sel \in Selections :
         \E o \in {NewObj(heap, [m \in DOMAIN e.obs |->
                                    Vec(OneHot(NumObsLevels, e.obs[m]))])} :
         \E q \in {NewObj(o.h, [f \in DOMAIN e.qs |-> Vec(e.qs[f])])} :
         \E qp \in {NewObj(q.h, [f \in DOMAIN e.qs_prev |-> Vec(e.qs_prev[f])])} :
             /\ objs' = qp.h.objs /\ arrs' = qp.h.arrs
             /\ env' = [env EXCEPT !.obs = o.id, !.qs = q.id, !.qs_prev = qp.id,
                                   !.actions = e.actions, !.sel = sel]
    /\ phase' = "prepared"
    /\ UNCHANGED ncalls
    /\ UNCHANGED <<fpi_vars, infer_vars>>

Finish(op, r) ==
    /\ objs' = r.h.objs /\ arrs' = r.h.arrs
    /\ env' = [env EXCEPT !.op = op, !.res = r.id, !.exc = r.exc,
                          !.warned = r.warned, !.sliced = r.sliced]
    /\ phase' = "returned"
    /\ ncalls' = ncalls + 1
    /\ UNCHANGED <<fpi_vars, infer_vars>>

Learned(r) == Outcome(r.h, r.id, "", {}, 0)

UpdateObs ==
    /\ phase = "prepared"
    /\ \E r \in {update_obs_likelihood_dirichlet(
                  heap, env.pA, env.A, env.obs, env.qs, env.lr, env.sel)} :
         Finish("update_obs_likelihood_dirichlet", Learned(r))

UpdateStateLikelihood ==
    /\ phase = "prepared"
    /\ \E r \in {update_state_likelihood_dirichlet(
                  heap, env.pB, env.B, env.actions, env.qs, env.qs_prev,
                  env.lr, env.sel)} :
         Finish("update_state_likelihood_dirichlet", Learned(r))

UpdateStatePrior ==
    /\ phase = "prepared"
    /\ \E r \in {update_state_prior_dirichlet(
                  heap, env.pD, env.qs, env.lr, env.sel)} :
         Finish("update_state_prior_dirichlet", Learned(r))

\* levels to remove, per factor (or modality): none, some, all of one factor,
\* all of every factor
FactoredLevelSets == {Fn0(<<{}, {}>>), Fn0(<<{0}, {}>>), Fn0(<<{1}, {0}>>),
                      Fn0(<<{0, 1}, {}>>), Fn0(<<{0, 1}, {0, 1}>>)}
SingleLevelSets == {{}, {0}, {0, 1, 2}}
\* levels to remove from a model: along its first and along its second kind
\* of axis
ModelLevelSets == {<<Fn0(<<{}, {}>>), Fn0(<<{}, {}>>)>>,
                   <<Fn0(<<{1}, {}>>), Fn0(<<{}, {0}>>)>>,
                   <<Fn0(<<{}, {}>>), Fn0(<<{0}, {}>>)>>}

CanPrune == phase = "ready" /\ ncalls < MaxCalls
Prune(op, levels, dirichlet, r) ==
    /\ objs' = r.h.objs /\ arrs' = r.h.arrs
    /\ env' = [env EXCEPT !.op = op, !.res = r.id, !.exc = r.exc,
                          !.warned = r.warned, !.sliced = r.sliced,
                          !.levels = levels, !.dirichlet = dirichlet]
    /\ phase' = "returned"
    /\ ncalls' = ncalls + 1
    /\ UNCHANGED <<fpi_vars, infer_vars>>

\* _prune_prior on the factored prior the agent holds
PrunePriorFactoredCall ==
    /\ CanPrune
    /\ \E levels \in FactoredLevelSets, dirichlet \in BOOLEAN :
           \E r \in {_prune_prior(heap, env.pD, levels, dirichlet)} :
               Prune("_prune_prior", <<"factored", levels>>, dirichlet, r)

\* _prune_prior on a single vector
PrunePriorSingleCall ==
    /\ CanPrune
    /\ \E levels \in SingleLevelSets, dirichlet \in BOOLEAN :
           \E r \in {_prune_prior(heap, env.D, levels, dirichlet)} :
               Prune("_prune_prior", <<"single", levels>>, dirichlet, r)

PruneACall ==
    /\ CanPrune
    /\ \E ls \in ModelLevelSets, dirichlet \in BOOLEAN :
           \E r \in {_prune_A(heap, IF dirichlet THEN env.pA ELSE env.A,
                               ls[1], ls[2], dirichlet)} :
               Prune("_prune_A", <<"modalities", ls>>, dirichlet, r)

\* _prune_A on the ndarray of one modality
SingleModelLevelSets == {<<{}, {}>>, <<{}, {1}>>}
PruneASingleCall ==
    /\ CanPrune
    /\ \E m \in DOMAIN objs[env.A], ls \in SingleModelLevelSets,
          dirichlet \in BOOLEAN :
           \E r \in {_prune_A(heap, objs[IF dirichlet THEN env.pA ELSE env.A][m],
                               ls[1], ls[2], dirichlet)} :
               Prune("_prune_A", <<"single", m, ls>>, dirichlet, r)

PruneBCall ==
    /\ CanPrune
    /\ \E ls \in ModelLevelSets, dirichlet \in BOOLEAN :
           \E r \in {_prune_B(heap, IF dirichlet THEN env.pB ELSE env.B,
                               ls[1], ls[2], dirichlet)} :
               Prune("_prune_B", ls, dirichlet, r)

\* the caller takes the result: updated parameters replace the ones it held,
\* a reduced model is used elsewhere; the arguments it built are dropped
Rebind ==
    /\ phase = "returned"
    /\ LET slot == CASE env.op = "update_obs_likelihood_dirichlet" -> "pA"
                     [] env.op = "update_state_likelihood_dirichlet" -> "pB"
                     [] env.op = "update_state_prior_dirichlet" -> "pD"
                     [] OTHER -> ""
       IN  \E h1 \in {FreeObj(heap, IF slot = "" THEN env.res ELSE env[slot])} :
           \E h2 \in {FreeObj(h1, env.obs)} :
           \E h3 \in {FreeObj(h2, env.qs)} :
           \E h4 \in {FreeObj(h3, env.qs_prev)} :
           /\ objs' = h4.objs /\ arrs' = h4.arrs
           /\ env' = [IF slot = "" THEN env ELSE [env EXCEPT ![slot] = env.res]
                        EXCEPT !.obs = NoResult, !.qs = NoResult,
                               !.qs_prev = NoResult, !.actions = <<>>,
                               !.sel = <<>>, !.op = "", !.res = NoResult,
                               !.exc = "", !.warned = {}, !.sliced = 0,
                               !.levels = <<>>, !.dirichlet = FALSE]
    /\ phase' = "ready"
    /\ UNCHANGED ncalls
    /\ UNCHANGED <<fpi_vars, infer_vars>>

(***************************************************************************)
(* inference.py: update_posterior_states                                   *)
(***************************************************************************)
\* the module constants FPI .. CV
Constants == {"FPI", "VMP", "MMP", "BP", "EP", "CV"}
\* a method argument: a string and whether it is the very object the module
\* constant of that text is (`is` compares objects, not texts)
Methods ==
    {[text |-> t, same |-> TRUE] : t \in Constants}
      \cup {[text |-> t, same |-> FALSE] : t \in {"FPI", "VMP", "fpi", "XYZ"}}
\* method is K, for a module constant K
Is(method, K) == method.same /\ method.text = K

InferStates == 3
\* A as one ndarray (one modality) or as an array of arrays
InferModels ==
    {[arr_of_arr |-> FALSE,
      A |-> [m \in {0} |-> ModelA(pat, Fn0(<<InferStates>>))]] :
        pat \in {"detect", "noisy"}}
      \cup {[arr_of_arr |-> TRUE,
             A |-> Fn0(<<ModelA("noisy", Fn0(<<InferStates>>)),
                         ModelA("detect", Fn0(<<InferStates>>))>>)]}
\* obs as an int, a tuple of ints or one-hot vectors
ObsForms == {"int", "tuple", "onehot"}
\* prior absent, one vector or an array of arrays
PriorForms == {"none", "vector", "arr_of_arr"}

InferInit ==
    /\ FpiIdle /\ LearnIdle
    /\ ipc = "idle" /\ iargs = <<>> /\ idims = <<>> /\ iobs = <<>>
    /\ iprior = <<>> /\ run_fpi_calls = 0 /\ iret = NoRet

InferCall ==
    /\ ipc = "idle"
    /\ \E model \in InferModels, form \in ObsForms, pform \in PriorForms,
          method \in Methods, return_numpy \in BOOLEAN :
         \E o \in [DOMAIN model.A -> 0..(NumObsLevels - 1)] :
            /\ form = "int" => ~model.arr_of_arr
            /\ iargs' = [A |-> model.A, arr_of_arr |-> model.arr_of_arr,
                         obs_form |-> form,
                         obs |-> IF form = "onehot"
                                 THEN [m \in DOMAIN o |-> OneHot(NumObsLevels, o[m])]
                                 ELSE o,
                         prior_form |-> pform,
                         prior |->
                            LET v == [i \in 0..(InferStates - 1) |->
                                        Log(Add(Skewed(InferStates)[i], Eps16))]
                            IN  CASE pform = "none" -> <<>>
                                  [] pform = "vector" -> v
                                  [] OTHER -> [f \in {0} |-> v],
                         method |-> method, return_numpy |-> return_numpy]
    /\ ipc' = "dims"
    /\ UNCHANGED <<idims, iobs, iprior, run_fpi_calls, iret>>
    /\ UNCHANGED <<fpi_vars, learn_vars>>

\* lines 66-79
CollectDims ==
    /\ ipc = "dims"
    /\ idims' = [n_factors |-> Rank(iargs.A[0].shape) - 1,
                 n_states |-> [f \in 0..(Rank(iargs.A[0].shape) - 2) |->
                                 iargs.A[0].shape[f + 1]],
                 n_modalities |-> IF iargs.arr_of_arr THEN Dim(iargs.A) ELSE 1,
                 n_observations |-> [m \in DOMAIN iargs.A |-> iargs.A[m].shape[0]]]
    /\ ipc' = "process"
    /\ UNCHANGED <<iargs, iobs, iprior, run_fpi_calls, iret>>
    /\ UNCHANGED <<fpi_vars, learn_vars>>

\* np.eye(n)[o]
EyeRow(n, o) == [i \in 0..(n - 1) |-> IF i = o THEN One ELSE Zero]
\* lines 106-132: an int or a tuple becomes one-hot vectors
process_observations(obs, form, n_modalities, n_observations) ==
    CASE form = "int" -> [m \in {0} |-> EyeRow(n_observations[0], obs[0])]
      [] form = "tuple" -> [m \in 0..(n_modalities - 1) |->
                              EyeRow(n_observations[m], obs[m])]
      [] OTHER -> obs
\* lines 135-153: a prior that is no array of arrays is wrapped in one
process_priors(prior_, form) ==
    IF form = "arr_of_arr" THEN prior_ ELSE [f \in {0} |-> prior_]

\* lines 81-83: before the method is looked at
ProcessInputs ==
    /\ ipc = "process"
    /\ iobs' = process_observations(iargs.obs, iargs.obs_form,
                                    idims.n_modalities, idims.n_observations)
    /\ iprior' = IF iargs.prior_form # "none"
                 THEN process_priors(iargs.prior, iargs.prior_form)
                 ELSE <<>>
    /\ ipc' = "dispatch"
    /\ UNCHANGED <<iargs, idims, run_fpi_calls, iret>>
    /\ UNCHANGED <<fpi_vars, learn_vars>>

\* algos.run_fpi for a model with one hidden state factor
run_fpi(A, obs, n_observations, n_states, prior_) ==
    LET joint == get_joint_likelihood(A, obs, n_states)
        loglik == [p \in DOMAIN joint.v |-> Log(Add(joint.v[p], Eps16))]
        pr == IF prior_ = <<>>
              THEN [i \in 0..(n_states[0] - 1) |->
                      Log(Add(Uniform(n_states[0])[i], Eps16))]
              ELSE prior_[0]
    IN  [f \in {0} |-> Softmax(BroadcastAdd(loglik, pr))]

\* a dispatch that treats every unknown method as the default one
BranchDefaultsToFpi(method) ==
    IF \E K \in {"VMP", "MMP", "BP", "EP", "CV"} : Is(method, K)
    THEN "NotImplementedError"
    ELSE "run_fpi"

\* lines 85-98: what the chain of `is` tests selects
Branch(method) ==
    IF Is(method, "FPI") THEN "run_fpi"
    ELSE IF \E K \in {"VMP", "MMP", "BP", "EP", "CV"} : Is(method, K)
         THEN "NotImplementedError"
    ELSE "ValueError"

to_categorical(val) == [type |-> "Categorical", values |-> val]

\* lines 85-103
Dispatch ==
    /\ ipc = "dispatch"
    /\ LET branch == Branch(iargs.method)
           qs_ == run_fpi(iargs.A, iobs, idims.n_observations, idims.n_states, iprior)
       IN  IF branch = "run_fpi"
           THEN /\ run_fpi_calls' = run_fpi_calls + 1
                /\ iret' = Returned(IF iargs.return_numpy THEN qs_
                                    ELSE to_categorical(qs_))
           ELSE /\ iret' = Raised(branch)
                /\ UNCHANGED run_fpi_calls
    /\ ipc' = "done"
    /\ UNCHANGED <<iargs, idims, iobs, iprior>>
    /\ UNCHANGED <<fpi_vars, learn_vars>>

(***************************************************************************)
(* Specifications                                                          *)
(***************************************************************************)
FpiNext ==
    \/ Call
    \/ RunVanillaFpi
    \/ Setup
    \/ SingleFactor
    \/ LoopEnter
    \/ LoopExit
    \/ BeginOrder
    \/ DivideStep
    \/ FreeEnergy

LearnNext ==
    \/ Prepare
    \/ UpdateObs
    \/ UpdateStateLikelihood
    \/ UpdateStatePrior
    \/ PrunePriorFactoredCall
    \/ PrunePriorSingleCall
    \/ PruneACall
    \/ PruneASingleCall
    \/ PruneBCall
    \/ Rebind

InferNext ==
    \/ InferCall
    \/ CollectDims
    \/ ProcessInputs
    \/ Dispatch

SpecFpi == FpiInit /\ [][FpiNext]_vars
SpecLearn == LearnInit /\ [][LearnNext]_vars
SpecInfer == InferInit /\ [][InferNext]_vars

(***************************************************************************)
(* Properties of the fixed-point solvers (checked under SpecFpi)           *)
(***************************************************************************)
\* rounding slack for a sum of probabilities
SumTol == Frac(1, 256)
IsDistribution(v) ==
    /\ \A i \in DOMAIN v : IsFin(v[i]) /\ v[i].m >= 0
    /\ Lt(FAbs(Sub(FSum(v), One)), SumTol)

\* C1 (as stated): every belief vector that run_vanilla_fpi or
\* _run_vanilla_fpi_faster returns is non-negative and sums to 1, with one
\* factor and with several, after any number of passes of the loop.
C1_ReturnedBeliefsAreDistributions ==
    (pc = "done" /\ ret.kind = "return") =>
        \A f \in DOMAIN ret.val : IsDistribution(ret.val[f])

InLoop(p) == p \in {"while", "order", "divide", "vfe"}
\* C2 (as stated): the multi-factor loop runs its body at most num_iter
\* times, the counter grows by exactly 1 per pass, and the loop is left only
\* because curr_iter reached num_iter or dF fell below dF_tol.
C2_LoopExitsOnlyByItsCondition ==
    [][/\ (pc = "vfe" /\ pc' = "while") => curr_iter' = curr_iter + 1
       /\ (InLoop(pc) /\ InLoop(pc') /\ ~(pc = "vfe" /\ pc' = "while"))
            => curr_iter' = curr_iter
       /\ InLoop(pc') => curr_iter' <= args'.num_iter
       /\ (InLoop(pc) /\ pc' = "done")
            => (curr_iter = args.num_iter \/ Lt(dF, args.dF_tol))]_vars

\* C3 (as stated): run_vanilla_fpi called with well-formed arguments ends
\* without raising and returns one belief vector per hidden state factor,
\* qs[f] with num_states[f] entries.
C3_VanillaReturnsOneVectorPerFactor ==
    (pc = "done" /\ args.alg = "run_vanilla_fpi") =>
        /\ ret.kind = "return"
        /\ DOMAIN ret.val = DOMAIN args.num_states
        /\ \A f \in DOMAIN ret.val : Dim(ret.val[f]) = args.num_states[f]

(***************************************************************************)
(* Properties of update_posterior_states (checked under SpecInfer)         *)
(***************************************************************************)
Called == ipc \notin {"off", "idle"}
\* C4: only the constant FPI reaches the solver.  A call whose method is one
\* of the constants VMP, MMP, BP, EP, CV ends with NotImplementedError, a
\* call whose method is none of the six constants ends with ValueError, and
\* in both cases run_fpi is never invoked and nothing is returned.
C4_OnlyFpiReachesTheSolver ==
    Called =>
        /\ ~Is(iargs.method, "FPI") => (run_fpi_calls = 0 /\ iret.kind # "return")
        /\ ipc = "done" =>
             /\ (\E K \in Constants \ {"FPI"} : Is(iargs.method, K))
                  => (iret.kind = "raise" /\ iret.exc = "NotImplementedError")
             /\ (\A K \in Constants : ~Is(iargs.method, K))
                  => (iret.kind = "raise" /\ iret.exc = "ValueError")
             /\ Is(iargs.method, "FPI")
                  => (iret.kind = "return" /\ run_fpi_calls = 1)

\* a call with method CV, two modalities and a prior has ended
C4_Witness ==
    /\ ipc = "done" /\ Is(iargs.method, "CV") /\ iargs.arr_of_arr
    /\ iargs.prior_form = "vector"
    /\ iret.exc = "NotImplementedError"

(***************************************************************************)
(* Properties of learning and model reduction (checked under SpecLearn)    *)
(***************************************************************************)
ReturnedFrom(op) == phase = "returned" /\ env.op = op
Selected(i) == \E k \in DOMAIN env.sel : env.sel[k] = i
\* what the caller passed and what it got back
ArgVals(name) == Deref(heap, env[name])
ResVals == Deref(heap, env.res)

\* C5 (as stated): after an update_obs_likelihood_dirichlet call, and after
\* any sequence of them, every entry that is exactly zero in A[m] is exactly
\* zero in the column-normalized returned parameters; likewise for
\* update_state_likelihood_dirichlet and the zeros of B[f][:, :, actions[f]].
C5_ZerosOfModelAreZeroInReconstruction ==
    /\ ReturnedFrom("update_obs_likelihood_dirichlet") =>
         \A m \in DOMAIN ResVals : \A p \in DOMAIN ResVals[m].v :
            IsZero(ArgVals("A")[m].v[p]) => IsZero(norm_dist(ResVals[m]).v[p])
    /\ ReturnedFrom("update_state_likelihood_dirichlet") =>
         \A f \in DOMAIN ResVals : \A p \in DOMAIN ResVals[f].v :
            (/\ InActionSlice(ResVals[f].shape, p, env.actions[f])
             /\ IsZero(ArgVals("B")[f].v[p]))
                => IsZero(norm_dist(ResVals[f]).v[p])

\* C5 (amended): an entry that is exactly zero in A[m] (in B[f]) is never
\* incremented: after any sequence of updates it holds the value the initial
\* pA (pB) had there.  So it is zero in the column-normalized reconstruction
\* when the initial parameters were zero there, and only then.
C5_ZerosOfModelKeepTheirInitialCount ==
    /\ ReturnedFrom("update_obs_likelihood_dirichlet") =>
         \A m \in DOMAIN ResVals : \A p \in DOMAIN ResVals[m].v :
            IsZero(ArgVals("A")[m].v[p]) =>
               /\ ResVals[m].v[p] = InitPA(env.kind)[m].v[p]
               /\ IsZero(norm_dist(ResVals[m]).v[p])
                    <=> IsZero(InitPA(env.kind)[m].v[p])
    /\ ReturnedFrom("update_state_likelihood_dirichlet") =>
         \A f \in DOMAIN ResVals : \A p \in DOMAIN ResVals[f].v :
            IsZero(ArgVals("B")[f].v[p]) =>
               /\ ResVals[f].v[p] = InitPB(env.kind)[f].v[p]
               /\ IsZero(norm_dist(ResVals[f]).v[p])
                    <=> IsZero(InitPB(env.kind)[f].v[p])

\* the second of two updates of pA, started with the support of A, has added
\* to the parameters
C5_Witness ==
    /\ ReturnedFrom("update_obs_likelihood_dirichlet")
    /\ env.kind = "sparse" /\ ncalls = 2 /\ env.lr = One
    /\ ResVals # ArgVals("pA")
    /\ ArgVals("pA") # InitPA("sparse")
    /\ \E p \in DOMAIN ResVals[0].v : IsZero(ArgVals("A")[0].v[p])

\* C6: after any sequence of update_state_prior_dirichlet calls the indices
\* where pD[f] is positive are those where the initial pD[f] was positive;
\* a call adds lr * qs[f][i] at the indices of the support of the selected
\* factors and nothing anywhere else.
C6_PriorSupportIsKept ==
    /\ phase \in {"ready", "prepared", "returned"} =>
         \A f \in DOMAIN ArgVals("pD") : \A i \in DOMAIN ArgVals("pD")[f].v :
            Lt(Zero, ArgVals("pD")[f].v[i]) <=> Lt(Zero, InitPD(env.kind)[f].v[i])
    /\ ReturnedFrom("update_state_prior_dirichlet") =>
         \A f \in DOMAIN ResVals : \A i \in DOMAIN ResVals[f].v :
            /\ Lt(Zero, ResVals[f].v[i]) <=> Lt(Zero, InitPD(env.kind)[f].v[i])
            /\ ResVals[f].v[i] =
                 IF Selected(f) /\ Lt(Zero, ArgVals("pD")[f].v[i])
                 THEN Add(ArgVals("pD")[f].v[i],
                          Mul(env.lr, ArgVals("qs")[f].v[i]))
                 ELSE ArgVals("pD")[f].v[i]

\* the second update of a prior with a zero in factor 0, with belief mass on
\* that zero
C6_Witness ==
    /\ ReturnedFrom("update_state_prior_dirichlet")
    /\ env.kind = "sparse" /\ ncalls = 2 /\ env.lr = One /\ Selected(0)
    /\ IsZero(ArgVals("pD")[0].v[1]) /\ Lt(Zero, ArgVals("qs")[0].v[1])
    /\ ArgVals("pD") # InitPD("sparse")

\* C7: update_obs_likelihood_dirichlet with lr = 0 returns parameters equal
\* to pA in every modality and entry.
C7_ZeroLearningRateReturnsPA ==
    (ReturnedFrom("update_obs_likelihood_dirichlet") /\ IsZero(env.lr)) =>
        ResVals = ArgVals("pA")

\* a call with lr = 0 that selects both modalities, with beliefs that would
\* add to entries of both
C7_Witness ==
    /\ ReturnedFrom("update_obs_likelihood_dirichlet") /\ IsZero(env.lr)
    /\ Selected(0) /\ Selected(1) /\ env.kind = "dense"
    /\ Lt(Zero, ArgVals("qs")[0].v[1])

\* C8: update_state_likelihood_dirichlet adds lr * outer(qs[f], qs_prev[f]),
\* masked by B[f] > 0, to the slice [:, :, actions[f]] of every selected
\* factor; every other slice and every other factor equals the input pB.
C8_OnlyTheActionSliceChanges ==
    ReturnedFrom("update_state_likelihood_dirichlet") =>
        \A f \in DOMAIN ResVals : \A p \in DOMAIN ResVals[f].v :
            LET shape == ResVals[f].shape
                i == Coord(shape, p, 0)
                j == Coord(shape, p, 1)
                delta == Mul(Mul(ArgVals("qs")[f].v[i], ArgVals("qs_prev")[f].v[j]),
                             IF Lt(Zero, ArgVals("B")[f].v[p]) THEN One ELSE Zero)
            IN  ResVals[f].v[p] =
                  IF Selected(f) /\ Coord(shape, p, 2) = env.actions[f]
                  THEN Add(ArgVals("pB")[f].v[p], Mul(env.lr, delta))
                  ELSE ArgVals("pB")[f].v[p]

\* an update of factor 1 alone that changed it
C8_Witness ==
    /\ ReturnedFrom("update_state_likelihood_dirichlet")
    /\ Selected(1) /\ ~Selected(0) /\ env.lr = One
    /\ ResVals[1] # ArgVals("pB")[1]

Held == {"pA", "A", "pB", "B", "pD", "D", "obs", "qs", "qs_prev"}
\* C9: no learning or pruning call changes what the caller holds: every
\* object array and every ndarray of the heap is after the call (returned or
\* raised) what it was before, the caller's names refer to the same objects,
\* and a result is made of objects that did not exist before.
C9_ArgumentsAreNotMutated ==
    [][(phase' = "returned" /\ phase # "returned") =>
         /\ \A o \in DOMAIN objs : o \in DOMAIN objs' /\ objs'[o] = objs[o]
         /\ \A a \in DOMAIN arrs : a \in DOMAIN arrs' /\ arrs'[a] = arrs[a]
         /\ \A name \in Held : env'[name] = env[name]
         /\ env'.res # NoResult =>
              /\ env'.res \notin Used(heap)
              /\ env'.res \in DOMAIN objs' =>
                   \A i \in DOMAIN objs'[env'.res] :
                      objs'[env'.res][i] \notin DOMAIN arrs]_vars

\* an update of pB has returned parameters that differ from the pB the
\* caller still holds
C9_Witness ==
    /\ ReturnedFrom("update_state_likelihood_dirichlet")
    /\ env.res # env.pB
    /\ ResVals # ArgVals("pB")
    /\ ArgVals("pB") = InitPB(env.kind)

\* C10 (as stated): a _prune_prior call with dirichlet set ends in
\* NotImplementedError and hands back no reduced prior, whatever the prior
\* (single vector or factored) and whatever the levels to remove.
C10_DirichletPriorPruningRaises ==
    (ReturnedFrom("_prune_prior") /\ env.dirichlet) =>
        /\ env.exc = "NotImplementedError"
        /\ env.res = NoResult

\* the factors of a prior whose every level is among the levels to remove
Emptied(sizes, levels) ==
    {f \in DOMAIN sizes : (0..(sizes[f] - 1)) \subseteq levels[f]}
\* C11 (as stated): when levels_to_remove covers every level of a factor,
\* _prune_prior (dirichlet = False) warns about that factor and returns a
\* factorization made of exactly the factors that keep a level, in their
\* original order; for a factored prior and for a single vector alike.
C11_EmptiedFactorsAreDroppedWithWarning ==
    (ReturnedFrom("_prune_prior") /\ ~env.dirichlet) =>
        IF env.levels[1] = "factored"
        THEN LET given == ArgVals("pD")
                 gone == Emptied([f \in DOMAIN given |-> Dim(given[f].v)],
                                 env.levels[2])
                 kept == LevelsToKeep(Dim(given), gone)
             IN  /\ env.warned = gone
                 /\ env.res \in DOMAIN objs
                 /\ DOMAIN ResVals = DOMAIN kept
                 /\ \A k \in DOMAIN kept :
                       ResVals[k] =
                         norm_dist(Take(given[kept[k]],
                            [a \in {0} |-> LevelsToKeep(Dim(given[kept[k]].v),
                                                        env.levels[2][kept[k]])]))
        ELSE LET gone == Emptied([f \in {0} |-> Dim(arrs[env.D].v)],
                                 [f \in {0} |-> env.levels[2]])
             IN  gone # {} =>
                   /\ env.warned = gone
                   /\ env.res \in DOMAIN objs
                   /\ Dim(objs[env.res]) = 0

\* every column (axis 0) of t sums to exactly 1
ColumnsSumToOne(t) ==
    \A p \in DOMAIN t.v :
        FSum([i \in 0..(t.shape[0] - 1) |->
                t.v[i * Stride(t.shape, 0) + (p % Stride(t.shape, 0))]]) = One
NothingToPrune(levels) ==
    IF levels[1] = "single" THEN levels[3] = <<{}, {}>>
    ELSE \A k \in {1, 2} : \A i \in DOMAIN levels[2][k] : levels[2][k][i] = {}
\* C12: _prune_A with empty removal sets and dirichlet = False, on a model
\* whose columns sum to 1, returns for one ndarray a tensor of the same shape
\* and entries, and for an object array such a tensor for every modality.
C12_PruningNothingReturnsTheModel ==
    (ReturnedFrom("_prune_A") /\ ~env.dirichlet /\ NothingToPrune(env.levels)) =>
        /\ env.exc = ""
        /\ IF env.levels[1] = "single"
           THEN ColumnsSumToOne(ArgVals("A")[env.levels[2]]) =>
                   arrs[env.res] = ArgVals("A")[env.levels[2]]
           ELSE /\ DOMAIN ResVals = DOMAIN ArgVals("A")
                /\ \A m \in DOMAIN ResVals :
                      ColumnsSumToOne(ArgVals("A")[m]) => ResVals[m] = ArgVals("A")[m]

\* the noisy modality, passed as one ndarray, was pruned of nothing
C12_Witness ==
    /\ ReturnedFrom("_prune_A") /\ ~env.dirichlet /\ NothingToPrune(env.levels)
    /\ env.levels[1] = "single" /\ env.levels[2] = 1
    /\ ColumnsSumToOne(ArgVals("A")[1])
    /\ \E p \in DOMAIN arrs[env.res].v : arrs[env.res].v[p] = Frac(3, 4)

\* log(p + 1e-16) of every entry of every factor, as the default prior is made
LogOf(p) == [f \in DOMAIN p |-> [i \in DOMAIN p[f] |-> Log(Add(p[f][i], Eps16))]]
SetUp == pc \in {"single", "while", "order", "divide", "vfe"}
            \/ (pc = "done" /\ ret.kind = "return")
\* C13 (as stated): the prior the solver adds to the log-likelihood inside
\* the softmax is the logarithm of the probability vectors the caller
\* supplied, made the way the default uniform prior is made.
C13_SuppliedPriorIsLogged ==
    SetUp =>
        prior = LogOf(IF args.prior_given THEN args.prior
                      ELSE [f \in DOMAIN args.num_states |->
                              Uniform(args.num_states[f])])

\* C14 (as stated): a call that fails as unsupported has done no other work:
\* update_posterior_states raises for a method other than FPI before obs or
\* prior are processed, and _prune_A / _prune_B with dirichlet = True raise
\* before any tensor is sliced.
C14_UnsupportedCallsFailFirst ==
    /\ (ipc = "done" /\ iret.kind = "raise") => (iobs = <<>> /\ iprior = <<>>)
    /\ ((ReturnedFrom("_prune_A") \/ ReturnedFrom("_prune_B"))
          /\ env.exc = "NotImplementedError") => env.sliced = 0

\* C15 (as stated): a call with exactly one hidden state factor returns
\* softmax(L + logPrior[0]) and never enters the loop, whatever num_iter, dF
\* and dF_tol are; logPrior is the logarithm of the supplied prior, or of the
\* uniform one.
C15_SingleFactorShortcut ==
    (Dim(args.num_states) = 1) =>
        /\ ~InLoop(pc)
        /\ pc = "done" =>
             /\ ret.kind = "return"
             /\ curr_iter = 0
             /\ ret.val[0] =
                  Softmax(BroadcastAdd(likelihood.v,
                     LogOf(IF args.prior_given THEN args.prior
                           ELSE [f \in {0} |-> Uniform(args.num_states[0])])[0]))

RECURSIVE WeightOfOthers(_, _, _, _, _)
\* the product of the beliefs q[g] of the first n factors g other than f, at
\* the levels of position p
WeightOfOthers(q, shape, p, f, n) ==
    IF n = 0 THEN One
    ELSE IF n - 1 = f THEN WeightOfOthers(q, shape, p, f, n - 1)
    ELSE Mul(WeightOfOthers(q, shape, p, f, n - 1),
             q[n - 1][Coord(shape, p, n - 1)])
\* T contracted against the beliefs of every factor but f, keeping f's axis
Contract(T, q, f) ==
    SumOut([T EXCEPT !.v = [p \in DOMAIN @ |->
                Mul(@[p], WeightOfOthers(q, T.shape, p, f, Rank(T.shape)))]], f)
\* C16 (as stated): the step of a pass that is about factor f replaces qs[f],
\* and nothing else, by softmax(c_f + prior[f]), c_f being the joint
\* log-likelihood contracted against the beliefs of all other factors; in the
\* forward and in the reverse pass, for the first, the last and every middle
\* factor.
C16_EveryFactorGetsItsOwnUpdate ==
    [][(pc = "divide" /\ pc' \in {"divide", "order", "vfe"}) =>
         LET f == FactorOrder(order_i)[pos]
         IN  /\ \A g \in DOMAIN qs : g # f => qs'[g] = qs[g]
             /\ qs'[f] = Softmax(BroadcastAdd(Contract(likelihood, qs, f),
                                              prior[f]))]_vars

\* C17 (as stated): within a pass every step reads one snapshot of the
\* beliefs.  The joint tensor L holds the beliefs as they were when the pass
\* began, so the belief a step divides out of L (qs[factor] of the body) must
\* still be the one that was multiplied in: no earlier step of the same pass
\* may have replaced it.
C17_DividedBeliefIsTheOneMultipliedIn ==
    [][(pc = "divide" /\ pc' = "divide") => qs'[factor'] = qs[factor']]_vars

OutcomesOf(h, e) ==
    NewObj(h, [m \in DOMAIN e.obs |-> Vec(OneHot(NumObsLevels, e.obs[m]))])
BeliefsOf(h, e) == NewObj(h, [f \in DOMAIN e.qs |-> Vec(e.qs[f])])

\* The call that just returned learned one experience (start -> first).
\* Learning a second experience e on top of it gives ab; learning e alone
\* gives other, and the first experience on top of that gives ba.
ObsBothOrders(e, sel) ==
    Then(OutcomesOf(heap, e), LAMBDA o :
    Then(BeliefsOf(o.h, e), LAMBDA q :
    Then(update_obs_likelihood_dirichlet(
             q.h, env.res, env.A, o.id, q.id, env.lr, sel), LAMBDA ab :
    Then(update_obs_likelihood_dirichlet(
             ab.h, env.pA, env.A, o.id, q.id, env.lr, sel), LAMBDA b :
    Then(update_obs_likelihood_dirichlet(
             b.h, b.id, env.A, env.obs, env.qs, env.lr, env.sel), LAMBDA ba :
        [start |-> Deref(ba.h, env.pA), first |-> Deref(ba.h, env.res),
         other |-> Deref(ba.h, b.id), model |-> Deref(ba.h, env.A),
         ab |-> Deref(ba.h, ab.id), ba |-> Deref(ba.h, ba.id)])))))
PriorBothOrders(e, sel) ==
    Then(BeliefsOf(heap, e), LAMBDA q :
    Then(update_state_prior_dirichlet(
             q.h, env.res, q.id, env.lr, sel), LAMBDA ab :
    Then(update_state_prior_dirichlet(
             ab.h, env.pD, q.id, env.lr, sel), LAMBDA b :
    Then(update_state_prior_dirichlet(
             b.h, b.id, env.qs, env.lr, env.sel), LAMBDA ba :
        [start |-> Deref(ba.h, env.pD), first |-> Deref(ba.h, env.res),
         other |-> Deref(ba.h, b.id),
         ab |-> Deref(ba.h, ab.id), ba |-> Deref(ba.h, ba.id)]))))

\* the experiences that differ from the one just learned
OtherExperiences ==
    {e \in Experiences : \E f \in DOMAIN e.qs : ArgVals("qs")[f].v # e.qs[f]}

\* C19 (as stated): the order in which experiences are learned does not
\* matter.  Two update_obs_likelihood_dirichlet calls, and two
\* update_state_prior_dirichlet calls, made in either order from the same
\* parameters (and for the same modalities or factors) return exactly the
\* same parameters.
C19_OrderOfExperiencesDoesNotMatter ==
    /\ ReturnedFrom("update_obs_likelihood_dirichlet") =>
          \A e \in OtherExperiences :
              \A r \in {ObsBothOrders(e, env.sel)} : r.ab = r.ba
    /\ ReturnedFrom("update_state_prior_dirichlet") =>
          \A e \in OtherExperiences :
              \A r \in {PriorBothOrders(e, env.sel)} : r.ab = r.ba

\* equal up to the rounding of a few additions
RoundingTol == Frac(1, 2 ^ (MantBits - 4))
Close(a, b) == Ge(Mul(RoundingTol, FAbs(a)), FAbs(Sub(a, b)))
\* the two orders agree at an entry: exactly where at most one of the two
\* experiences changes the count, up to rounding where both do
OrdersAgree(r, k, p) ==
    /\ Close(r.ab[k].v[p], r.ba[k].v[p])
    /\ (r.first[k].v[p] = r.start[k].v[p] \/ r.other[k].v[p] = r.start[k].v[p])
          => r.ab[k].v[p] = r.ba[k].v[p]

\* C19 (amended): two update_obs_likelihood_dirichlet calls, and two
\* update_state_prior_dirichlet calls, made in either order from the same
\* parameters (and for the same modalities or factors) return the same
\* parameters up to floating-point rounding, and exactly the same at every
\* entry that at most one of the two experiences changes.  The masks are the
\* same in both orders: an entry where A is not positive keeps its count,
\* and the support of pD is the support of both results.
C19_OrderMattersOnlyInRounding ==
    /\ ReturnedFrom("update_obs_likelihood_dirichlet") =>
          \A e \in OtherExperiences :
              \A r \in {ObsBothOrders(e, env.sel)} :
                  \A m \in DOMAIN r.start : \A p \in DOMAIN r.start[m].v :
                      /\ OrdersAgree(r, m, p)
                      /\ ~Lt(Zero, r.model[m].v[p]) =>
                            (r.ab[m].v[p] = r.start[m].v[p]
                               /\ r.ba[m].v[p] = r.start[m].v[p])
    /\ ReturnedFrom("update_state_prior_dirichlet") =>
          \A e \in OtherExperiences :
              \A r \in {PriorBothOrders(e, env.sel)} :
                  \A f \in DOMAIN r.start : \A i \in DOMAIN r.start[f].v :
                      /\ OrdersAgree(r, f, i)
                      /\ Lt(Zero, r.ab[f].v[i]) <=> Lt(Zero, r.start[f].v[i])
                      /\ Lt(Zero, r.ba[f].v[i]) <=> Lt(Zero, r.start[f].v[i])

\* a second update of the prior counts has returned, after an earlier one;
\* it and another experience both change the counts of factor 0, and the
\* two orders differ in the last bits
C19_Witness ==
    /\ ReturnedFrom("update_state_prior_dirichlet") /\ ncalls = 2
    /\ Selected(0) /\ env.lr = One
    /\ ArgVals("pD") # InitPD(env.kind)
    /\ ResVals[0] # ArgVals("pD")[0]
    /\ \E e \in OtherExperiences :
          \E r \in {PriorBothOrders(e, env.sel)} :
              r.ab[0] # r.first[0] /\ r.ba[0] # r.other[0] /\ r.ab[0] # r.ba[0]
====
